---- MODULE Spec2Model ----
(***************************************************************************)
(* State machine of the MapView component (src/src/components/Map.tsx):    *)
(* the six useState cells, the pending setTimeout callbacks, the polyline  *)
(* coordinates computed by each render, and the drag gesture the Marker    *)
(* widget is tracking.  One action per event handler.  React runs one      *)
(* handler at a time and re-renders before the next event, so the values   *)
(* a handler closes over are those of the current state.                   *)
(***************************************************************************)
EXTENDS Integers, Sequences, FiniteSets

\* ---------------------------------------------------------------- bounds
MaxWaypoints == 3
MaxTimers == 2

\* Coordinates a click or a drag event can carry (event.lngLat).
LngLats == {[lng |-> 100, lat |-> 13], [lng |-> 101, lat |-> 14]}

\* ---------------------------------------------------------------- values
\* null of draggingMarkerId / popupMarkerId (ids are 1-based).
NULL == 0
\* null of modeMessage.
NullMessage == "null"
\* event.lngLat of an event that carries no coordinate.
NoLngLat == [lng |-> 0, lat |-> 0]

VARIABLES
    waypoints,          \* useState<Waypoint[]>([])
    isPlacingMode,      \* useState<boolean>(true)
    showCoordinates,    \* useState<boolean>(false)
    draggingMarkerId,   \* useState<number | null>(null)
    popupMarkerId,      \* useState<number | null>(null)
    modeMessage,        \* useState<string | null>(null)
    timers,             \* number of pending setTimeout(() => setModeMessage(null))
    geojson,            \* LineString coordinates computed by the last render
    dragGesture,        \* key of the Marker the pointer is dragging, or NULL
    popupTarget,        \* history: popupTarget[i] iff the open delete affordance
                        \* was opened by a right-click on the waypoint now at i
    lastEvent           \* history: the event handled by the last step

vars == <<waypoints, isPlacingMode, showCoordinates, draggingMarkerId,
          popupMarkerId, modeMessage, timers, geojson, dragGesture,
          popupTarget, lastEvent>>

Event(op, id, lngLat) == [op |-> op, id |-> id, lngLat |-> lngLat]

\* ------------------------------------------------------- pure functions
\* faulty variant of newWaypoint: latitude and longitude exchanged
newWaypoint_Swapped(wps, lngLat) ==
    [id |-> Len(wps) + 1, latitude |-> lngLat.lng, longitude |-> lngLat.lat]

\* const newWaypoint = { id: waypoints.length + 1, latitude: lat, longitude: lng }
newWaypoint(wps, lngLat) ==
    [id |-> Len(wps) + 1, latitude |-> lngLat.lat, longitude |-> lngLat.lng]

\* faulty variant of handleDrag: the event's coordinate is added as an offset
handleDrag_Relative(prev, id, lngLat) ==
    [i \in 1..Len(prev) |->
        IF prev[i].id = id
        THEN [prev[i] EXCEPT !.latitude = @ + lngLat.lat,
                             !.longitude = @ + lngLat.lng]
        ELSE prev[i]]

\* faulty variant of handleDrag: the waypoint after the dragged one is moved
handleDrag_NextWaypoint(prev, id, lngLat) ==
    [i \in 1..Len(prev) |->
        IF prev[i].id = id + 1
        THEN [prev[i] EXCEPT !.latitude = lngLat.lat, !.longitude = lngLat.lng]
        ELSE prev[i]]

\* faulty variant of handleDrag: the longitude is not updated
handleDrag_KeepsLongitude(prev, id, lngLat) ==
    [i \in 1..Len(prev) |->
        IF prev[i].id = id
        THEN [prev[i] EXCEPT !.latitude = lngLat.lat]
        ELSE prev[i]]

\* prev.map(wp => wp.id === id ? {...wp, latitude, longitude} : wp)
handleDrag(prev, id, lngLat) ==
    [i \in 1..Len(prev) |->
        IF prev[i].id = id
        THEN [prev[i] EXCEPT !.latitude = lngLat.lat, !.longitude = lngLat.lng]
        ELSE prev[i]]

KeepOthers(prev, id) == SelectSeq(prev, LAMBDA wp : wp.id # id)

\* faulty variant of deleteMarker: the survivors are not renumbered
deleteMarker_NoRenumber(prev, id) == KeepOthers(prev, id)

\* faulty variant of deleteMarker: the last waypoint is removed, whatever the id
deleteMarker_DropsLast(prev, id) ==
    IF \E i \in 1..Len(prev) : prev[i].id = id
    THEN SubSeq(prev, 1, Len(prev) - 1)
    ELSE prev

\* faulty variant of deleteMarker: findIndex + splice, which removes the last
\* waypoint when no waypoint has the id (findIndex gives -1)
deleteMarker_Splice(prev, id) ==
    IF \E i \in 1..Len(prev) : prev[i].id = id
    THEN [i \in 1..Len(KeepOthers(prev, id)) |->
            [KeepOthers(prev, id)[i] EXCEPT !.id = i]]
    ELSE SubSeq(prev, 1, Len(prev) - 1)

\* prev.filter(wp => wp.id !== id).map((wp, index) => ({...wp, id: index + 1}))
\* (index is 0-based in the source, sequences are 1-based here)
deleteMarker(prev, id) ==
    [i \in 1..Len(KeepOthers(prev, id)) |->
        [KeepOthers(prev, id)[i] EXCEPT !.id = i]]

\* faulty variant of coordinates: pairs built as [latitude, longitude]
coordinates_LatFirst(wps) ==
    [i \in 1..Len(wps) |-> <<wps[i].latitude, wps[i].longitude>>]

\* coordinates: waypoints.map(wp => [wp.longitude, wp.latitude])
coordinates(wps) ==
    [i \in 1..Len(wps) |-> <<wps[i].longitude, wps[i].latitude>>]

\* faulty variant of ModeName: the two names exchanged
ModeName_Swapped(newMode) == IF newMode THEN "Dragging Mode" ELSE "Placing Mode"

\* newMode ? "Placing Mode" : "Dragging Mode"
ModeName(newMode) == IF newMode THEN "Placing Mode" ELSE "Dragging Mode"

\* draggable={!isPlacingMode}
Draggable(placing) == ~placing

\* A Marker is mounted per waypoint with key = waypoint.id; a gesture on a
\* Marker whose key is no longer rendered ends with the Marker's removal
\* (no dragend is delivered, so draggingMarkerId is left as it is).
GestureAfter(gesture, wps) ==
    IF \E i \in 1..Len(wps) : wps[i].id = gesture THEN gesture ELSE NULL

\* The marks travel with the waypoints through prev.filter(wp => wp.id !== id).
RECURSIVE FilterMarks(_, _, _)
FilterMarks(marks, wps, id) ==
    IF wps = <<>> THEN <<>>
    ELSE (IF Head(wps).id # id THEN <<Head(marks)>> ELSE <<>>)
            \o FilterMarks(Tail(marks), Tail(wps), id)

\* No affordance is open once popupMarkerId is null.
TargetAfter(marks, popup) ==
    IF popup = NULL THEN [i \in 1..Len(marks) |-> FALSE] ELSE marks

\* ---------------------------------------------------------------- Init
Init ==
    /\ waypoints = <<>>
    /\ isPlacingMode = TRUE
    /\ showCoordinates = FALSE
    /\ draggingMarkerId = NULL
    /\ popupMarkerId = NULL
    /\ modeMessage = NullMessage
    /\ timers = 0
    /\ geojson = coordinates(<<>>)
    /\ dragGesture = NULL
    /\ popupTarget = <<>>
    /\ lastEvent = Event("init", NULL, NoLngLat)

\* Every handler ends in a re-render, which recomputes the polyline.
Render == geojson' = coordinates(waypoints')

\* -------------------------------------------------------------- actions
\* faulty variant of MapClick: the click adds a waypoint in either mode
MapClick_IgnoresMode(lngLat) ==
    /\ Len(waypoints) < MaxWaypoints
    /\ popupMarkerId' = NULL
    /\ waypoints' = Append(waypoints, newWaypoint(waypoints, lngLat))
    /\ lastEvent' = Event("mapClick", NULL, lngLat)
    /\ UNCHANGED <<isPlacingMode, showCoordinates, draggingMarkerId,
                   modeMessage, timers, dragGesture>>
    /\ popupTarget' = TargetAfter(Append(popupTarget, FALSE), popupMarkerId')
    /\ Render

\* faulty variant of MapClick: the open delete affordance is not reset
MapClick_KeepsPopup(lngLat) ==
    /\ isPlacingMode => Len(waypoints) < MaxWaypoints
    /\ waypoints' = IF isPlacingMode
                    THEN Append(waypoints, newWaypoint(waypoints, lngLat))
                    ELSE waypoints
    /\ lastEvent' = Event("mapClick", NULL, lngLat)
    /\ UNCHANGED <<isPlacingMode, showCoordinates, draggingMarkerId,
                   popupMarkerId, modeMessage, timers, dragGesture>>
    /\ popupTarget' = TargetAfter(IF isPlacingMode THEN Append(popupTarget, FALSE)
                                   ELSE popupTarget, popupMarkerId')
    /\ Render

\* handleMapClick
MapClick(lngLat) ==
    /\ isPlacingMode => Len(waypoints) < MaxWaypoints
    /\ popupMarkerId' = NULL
    /\ waypoints' = IF isPlacingMode
                    THEN Append(waypoints, newWaypoint(waypoints, lngLat))
                    ELSE waypoints
    /\ lastEvent' = Event("mapClick", NULL, lngLat)
    /\ UNCHANGED <<isPlacingMode, showCoordinates, draggingMarkerId,
                   modeMessage, timers, dragGesture>>
    /\ popupTarget' = TargetAfter(IF isPlacingMode THEN Append(popupTarget, FALSE)
                                   ELSE popupTarget, popupMarkerId')
    /\ Render

\* Marker onDragStart of the Marker of waypoints[i]: handleDragStart(waypoint.id);
\* a gesture starts only on a draggable Marker
DragStart(i) ==
    /\ i \in 1..Len(waypoints)
    /\ Draggable(isPlacingMode)
    /\ dragGesture = NULL
    /\ draggingMarkerId' = waypoints[i].id
    /\ dragGesture' = waypoints[i].id
    /\ lastEvent' = Event("dragStart", waypoints[i].id, NoLngLat)
    /\ UNCHANGED <<waypoints, isPlacingMode, showCoordinates, popupMarkerId,
                   modeMessage, timers>>
    /\ UNCHANGED popupTarget
    /\ Render

\* Marker onDrag of the Marker under the pointer: handleDrag(waypoint.id, event)
Drag(lngLat) ==
    /\ dragGesture # NULL
    /\ \E i \in 1..Len(waypoints) : waypoints[i].id = dragGesture
    /\ waypoints' = handleDrag(waypoints, dragGesture, lngLat)
    /\ lastEvent' = Event("drag", dragGesture, lngLat)
    /\ UNCHANGED <<isPlacingMode, showCoordinates, draggingMarkerId,
                   popupMarkerId, modeMessage, timers, dragGesture>>
    /\ UNCHANGED popupTarget
    /\ Render

\* Marker onDragEnd: handleDragEnd
DragEnd ==
    /\ dragGesture # NULL
    /\ draggingMarkerId' = NULL
    /\ dragGesture' = NULL
    /\ lastEvent' = Event("dragEnd", dragGesture, NoLngLat)
    /\ UNCHANGED <<waypoints, isPlacingMode, showCoordinates, popupMarkerId,
                   modeMessage, timers>>
    /\ UNCHANGED popupTarget
    /\ Render

\* faulty variant of handleMarkerContextMenu: the affordance is always opened
handleMarkerContextMenu_ForceOpen(prev, id) == id

\* setPopupMarkerId(prev => prev === id ? null : id)
handleMarkerContextMenu(prev, id) == IF prev = id THEN NULL ELSE id

\* onContextMenu of the Marker of waypoints[i]: handleMarkerContextMenu(waypoint.id)
ContextMenu(i) ==
    /\ i \in 1..Len(waypoints)
    /\ popupMarkerId' = handleMarkerContextMenu(popupMarkerId, waypoints[i].id)
    /\ lastEvent' = Event("contextMenu", waypoints[i].id, NoLngLat)
    /\ UNCHANGED <<waypoints, isPlacingMode, showCoordinates, draggingMarkerId,
                   modeMessage, timers, dragGesture>>
    /\ popupTarget' = [j \in 1..Len(waypoints) |-> popupMarkerId' # NULL /\ j = i]
    /\ Render

\* faulty variant of DeleteMarkerStep: the delete affordance is left open
DeleteMarkerStep_KeepsPopup(id) ==
    /\ waypoints' = deleteMarker(waypoints, id)
    /\ dragGesture' = GestureAfter(dragGesture, waypoints')
    /\ lastEvent' = Event("delete", id, NoLngLat)
    /\ UNCHANGED <<isPlacingMode, showCoordinates, draggingMarkerId,
                   popupMarkerId, modeMessage, timers>>
    /\ popupTarget' = TargetAfter(FilterMarks(popupTarget, waypoints, id),
                               popupMarkerId')
    /\ Render

\* state change of deleteMarker(id)
DeleteMarkerStep(id) ==
    /\ waypoints' = deleteMarker(waypoints, id)
    /\ popupMarkerId' = NULL
    /\ dragGesture' = GestureAfter(dragGesture, waypoints')
    /\ lastEvent' = Event("delete", id, NoLngLat)
    /\ UNCHANGED <<isPlacingMode, showCoordinates, draggingMarkerId,
                   modeMessage, timers>>
    /\ popupTarget' = TargetAfter(FilterMarks(popupTarget, waypoints, id),
                               popupMarkerId')
    /\ Render

\* Delete button, rendered only on the Marker with popupMarkerId === waypoint.id
DeleteClick ==
    \E i \in 1..Len(waypoints) :
        /\ popupMarkerId = waypoints[i].id
        /\ DeleteMarkerStep(waypoints[i].id)

\* faulty variant of ClearAll: the open delete affordance is closed as well
ClearAll_ClosesPopup ==
    /\ waypoints' = <<>>
    /\ popupMarkerId' = NULL
    /\ dragGesture' = GestureAfter(dragGesture, waypoints')
    /\ lastEvent' = Event("clear", NULL, NoLngLat)
    /\ UNCHANGED <<isPlacingMode, showCoordinates, draggingMarkerId,
                   modeMessage, timers>>
    /\ popupTarget' = <<>>
    /\ Render

\* Clear button: setWaypoints([])
ClearAll ==
    /\ waypoints' = <<>>
    /\ dragGesture' = GestureAfter(dragGesture, waypoints')
    /\ lastEvent' = Event("clear", NULL, NoLngLat)
    /\ UNCHANGED <<isPlacingMode, showCoordinates, draggingMarkerId,
                   popupMarkerId, modeMessage, timers>>
    /\ popupTarget' = <<>>
    /\ Render

\* showModeMessage: setModeMessage(message); setTimeout(clear, 3000)
ShowModeMessage(message) ==
    /\ modeMessage' = message
    /\ timers' = timers + 1

\* faulty variant of ToggleMode: the message is shown but the mode is not flipped
ToggleMode_MessageOnly ==
    /\ timers < MaxTimers
    /\ isPlacingMode' = isPlacingMode
    /\ ShowModeMessage(ModeName(~isPlacingMode))
    /\ lastEvent' = Event("toggle", NULL, NoLngLat)
    /\ UNCHANGED <<waypoints, showCoordinates, draggingMarkerId, popupMarkerId,
                   dragGesture>>
    /\ UNCHANGED popupTarget
    /\ Render

\* toggleMode
ToggleMode ==
    /\ timers < MaxTimers
    /\ isPlacingMode' = ~isPlacingMode
    /\ ShowModeMessage(ModeName(~isPlacingMode))
    /\ lastEvent' = Event("toggle", NULL, NoLngLat)
    /\ UNCHANGED <<waypoints, showCoordinates, draggingMarkerId, popupMarkerId,
                   dragGesture>>
    /\ UNCHANGED popupTarget
    /\ Render

\* coordinate box button: setShowCoordinates(!showCoordinates)
ToggleCoordinates ==
    /\ showCoordinates' = ~showCoordinates
    /\ lastEvent' = Event("toggleCoordinates", NULL, NoLngLat)
    /\ UNCHANGED <<waypoints, isPlacingMode, draggingMarkerId, popupMarkerId,
                   modeMessage, timers, dragGesture>>
    /\ UNCHANGED popupTarget
    /\ Render

\* faulty variant of TimerFire: the callback does not clear the message
TimerFire_NoClear ==
    /\ timers > 0
    /\ timers' = timers - 1
    /\ lastEvent' = Event("timer", NULL, NoLngLat)
    /\ UNCHANGED <<waypoints, isPlacingMode, showCoordinates, draggingMarkerId,
                   popupMarkerId, modeMessage, dragGesture>>
    /\ UNCHANGED popupTarget
    /\ Render

\* the callback of the oldest pending setTimeout: setModeMessage(null)
TimerFire ==
    /\ timers > 0
    /\ timers' = timers - 1
    /\ modeMessage' = NullMessage
    /\ lastEvent' = Event("timer", NULL, NoLngLat)
    /\ UNCHANGED <<waypoints, isPlacingMode, showCoordinates, draggingMarkerId,
                   popupMarkerId, dragGesture>>
    /\ UNCHANGED popupTarget
    /\ Render

Next ==
    \/ \E lngLat \in LngLats : MapClick(lngLat)
    \/ \E i \in 1..MaxWaypoints : DragStart(i)
    \/ \E lngLat \in LngLats : Drag(lngLat)
    \/ DragEnd
    \/ \E i \in 1..MaxWaypoints : ContextMenu(i)
    \/ DeleteClick
    \/ ClearAll
    \/ ToggleMode
    \/ ToggleCoordinates
    \/ TimerFire

Spec == Init /\ [][Next]_vars

\* The handlers as functions: handleDrag and deleteMarker invoked with an
\* arbitrary id, which need not be the id of a rendered Marker.
HandleDragCall(id, lngLat) ==
    /\ waypoints' = handleDrag(waypoints, id, lngLat)
    /\ lastEvent' = Event("handleDrag", id, lngLat)
    /\ UNCHANGED <<isPlacingMode, showCoordinates, draggingMarkerId,
                   popupMarkerId, modeMessage, timers, dragGesture>>
    /\ UNCHANGED popupTarget
    /\ Render

DeleteMarkerCall(id) == DeleteMarkerStep(id)

NextHandlers ==
    \/ Next
    \/ \E id \in 1..(MaxWaypoints + 1), lngLat \in LngLats : HandleDragCall(id, lngLat)
    \/ \E id \in 1..(MaxWaypoints + 1) : DeleteMarkerCall(id)

SpecHandlers == Init /\ [][NextHandlers]_vars

\* A scheduled timeout callback is eventually run by the event loop.
FairSpec == Spec /\ WF_vars(TimerFire)

\* --------------------------------------------------------------- helpers
Ids(wps) == [i \in 1..Len(wps) |-> wps[i].id]
Positions(wps) == [i \in 1..Len(wps) |-> <<wps[i].latitude, wps[i].longitude>>]
HasId(wps, id) == \E i \in 1..Len(wps) : wps[i].id = id

\* type Waypoint = { id: number; latitude: number; longitude: number }
Waypoint == [id : Nat, latitude : Int, longitude : Int]

\* The types of the state: the useState cells (lines 23-28), the pending
\* timeouts, the rendered polyline and the Marker widget's gesture.
TypeOK ==
    /\ waypoints \in Seq(Waypoint)
    /\ Len(waypoints) <= MaxWaypoints
    /\ isPlacingMode \in BOOLEAN
    /\ showCoordinates \in BOOLEAN
    /\ draggingMarkerId \in Nat
    /\ popupMarkerId \in Nat
    /\ modeMessage \in {NullMessage, "Placing Mode", "Dragging Mode"}
    /\ timers \in 0..MaxTimers
    /\ geojson \in Seq(Int \X Int)
    /\ dragGesture \in Nat
    /\ popupTarget \in Seq(BOOLEAN)
    /\ Len(popupTarget) = Len(waypoints)

\* ---------------------------------------------------------------- claims

\* C1: in every reachable state the waypoint at 0-based index i has id i+1,
\* i.e. the ids are exactly 1..N in list order.
C1_DenseIds == \A i \in 1..Len(waypoints) : waypoints[i].id = i

\* C1 witness: a deletion from the front has happened and left two waypoints.
C1_Witness ==
    /\ lastEvent.op = "delete"
    /\ lastEvent.id = 1
    /\ Len(waypoints) = 2

\* C2: deleteMarker(k) on [w1..wN], k in 1..N, leaves N-1 waypoints with ids
\* 1..N-1; survivors before k are unchanged, each survivor after k moves one
\* place down with its id decreased by one and its position unchanged.
C2_DeleteRenumbers ==
    [][lastEvent'.op = "delete" /\ lastEvent'.id \in 1..Len(waypoints) =>
        LET k == lastEvent'.id
            N == Len(waypoints)
        IN  /\ Len(waypoints') = N - 1
            /\ \A i \in 1..(N - 1) : waypoints'[i].id = i
            /\ \A i \in 1..(k - 1) : waypoints'[i] = waypoints[i]
            /\ \A i \in (k + 1)..N :
                  /\ waypoints'[i - 1].id = waypoints[i].id - 1
                  /\ waypoints'[i - 1].latitude = waypoints[i].latitude
                  /\ waypoints'[i - 1].longitude = waypoints[i].longitude
    ]_vars

\* C2 witness: the middle one of three waypoints at two different places has
\* been deleted.
C2_Witness ==
    /\ lastEvent.op = "delete"
    /\ lastEvent.id = 2
    /\ Len(waypoints) = 2
    /\ Positions(waypoints)[1] # Positions(waypoints)[2]

\* C3 (as claimed): a message shown by a later showModeMessage call stays
\* displayed until the clear scheduled by that call fires.  The clears fire in
\* the order they were scheduled, so while any clear is pending the clear of
\* the latest call is pending and its message must still be displayed.
C3_NewerMessageSurvives == timers > 0 => modeMessage # NullMessage

\* C4: a map click in Placing mode on N waypoints appends exactly one
\* waypoint, with id N+1 and the clicked latitude/longitude, and leaves the
\* existing waypoints unchanged.
C4_ClickAppends ==
    [][lastEvent'.op = "mapClick" /\ isPlacingMode =>
        waypoints' = Append(waypoints,
                            [id |-> Len(waypoints) + 1,
                             latitude |-> lastEvent'.lngLat.lat,
                             longitude |-> lastEvent'.lngLat.lng])
    ]_vars

\* C4 witness: a third click in Placing mode has appended waypoint 3 at the
\* clicked place, which differs from the place of waypoint 2.
C4_Witness ==
    /\ lastEvent.op = "mapClick"
    /\ isPlacingMode
    /\ Len(waypoints) = 3
    /\ waypoints[3].latitude = lastEvent.lngLat.lat
    /\ waypoints[3].longitude = lastEvent.lngLat.lng
    /\ Positions(waypoints)[2] # Positions(waypoints)[3]

\* C5: a map click in Dragging mode leaves the waypoint list, the mode and
\* the message unchanged; in either mode it closes the delete affordance.
C5_ClickInDraggingMode ==
    [][lastEvent'.op = "mapClick" =>
        /\ popupMarkerId' = NULL
        /\ ~isPlacingMode =>
              /\ waypoints' = waypoints
              /\ isPlacingMode' = isPlacingMode
              /\ modeMessage' = modeMessage
    ]_vars

\* C5 witness: a map click was handled in Dragging mode with waypoints on the
\* map and a mode message on display.
C5_Witness ==
    /\ lastEvent.op = "mapClick"
    /\ ~isPlacingMode
    /\ Len(waypoints) = 2
    /\ modeMessage = "Dragging Mode"
    /\ popupMarkerId = NULL

\* C6 (as claimed): the position of a waypoint changes only in a drag-move
\* step taken while the mode is Dragging.
C6_MoveOnlyInDraggingMode ==
    [][(/\ Len(waypoints') = Len(waypoints)
        /\ Positions(waypoints') # Positions(waypoints))
       => (lastEvent'.op = "drag" /\ ~isPlacingMode)
    ]_vars

\* C7: handleDrag(id, position) changes only the latitude and longitude of
\* the waypoint with that id; length, order, ids, the other waypoints, mode,
\* drag id, affordance id and message are unchanged, and with no such
\* waypoint the whole state is unchanged.
C7_HandleDragFrame ==
    [][lastEvent'.op \in {"drag", "handleDrag"} =>
        LET id == lastEvent'.id
            p == lastEvent'.lngLat
        IN  /\ Len(waypoints') = Len(waypoints)
            /\ \A i \in 1..Len(waypoints) :
                  /\ waypoints'[i].id = waypoints[i].id
                  /\ waypoints[i].id # id => waypoints'[i] = waypoints[i]
                  /\ waypoints[i].id = id =>
                        /\ waypoints'[i].latitude = p.lat
                        /\ waypoints'[i].longitude = p.lng
            /\ UNCHANGED <<isPlacingMode, draggingMarkerId, popupMarkerId,
                           modeMessage>>
            /\ ~HasId(waypoints, id) =>
                  UNCHANGED <<waypoints, isPlacingMode, showCoordinates,
                              draggingMarkerId, popupMarkerId, modeMessage,
                              timers, geojson>>
    ]_vars

\* C7 witness: a drag-move has put waypoint 1 at the event's coordinate,
\* with another waypoint elsewhere and an affordance open.
C7_Witness ==
    /\ lastEvent.op = "drag"
    /\ lastEvent.id = 1
    /\ Len(waypoints) = 2
    /\ waypoints[1].latitude = lastEvent.lngLat.lat
    /\ waypoints[1].longitude = lastEvent.lngLat.lng
    /\ Positions(waypoints)[1] # Positions(waypoints)[2]
    /\ popupMarkerId = 2

\* C7, second case reached: handleDrag was invoked with an id that no
\* waypoint of a non-empty list has.
C7_UnknownIdReached ==
    /\ lastEvent.op = "handleDrag"
    /\ waypoints # <<>>
    /\ ~HasId(waypoints, lastEvent.id)

\* C8: clear-all empties the waypoint list and leaves mode, drag id,
\* affordance id, message and coordinate-box visibility unchanged.
C8_ClearAllFrame ==
    [][lastEvent'.op = "clear" =>
        /\ waypoints' = <<>>
        /\ UNCHANGED <<isPlacingMode, draggingMarkerId, popupMarkerId,
                       modeMessage, showCoordinates>>
    ]_vars

\* C8 witness: clear-all was handled with a drag active, an affordance open,
\* a message displayed and the coordinate box visible; all four remain.
C8_Witness ==
    /\ lastEvent.op = "clear"
    /\ waypoints = <<>>
    /\ draggingMarkerId # NULL
    /\ popupMarkerId # NULL
    /\ modeMessage # NullMessage
    /\ showCoordinates

\* C9: in every reachable state the path geometry has one pair per waypoint,
\* in list order, the i-th pair being (longitude, latitude) of waypoint i.
C9_PathMatchesWaypoints ==
    /\ Len(geojson) = Len(waypoints)
    /\ \A i \in 1..Len(waypoints) :
          geojson[i] = <<waypoints[i].longitude, waypoints[i].latitude>>

\* C9 witness: a drag-move on a list of two waypoints at different places.
C9_Witness ==
    /\ lastEvent.op = "drag"
    /\ Len(waypoints) = 2
    /\ Len(geojson) = 2
    /\ geojson[1] # geojson[2]

\* C10: toggleMode flips the mode, and with it which gestures are enabled,
\* and leaves the waypoint list unchanged, whatever the waypoints, the
\* active drag and the open affordance are (it is enabled whenever the model's
\* bound on pending timers leaves room); a second toggle flips it back.
C10_ToggleFlips ==
    /\ [](timers < MaxTimers => ENABLED ToggleMode)
    /\ [][lastEvent'.op = "toggle" =>
            /\ isPlacingMode' = ~isPlacingMode
            /\ Draggable(isPlacingMode') = ~Draggable(isPlacingMode)
            /\ waypoints' = waypoints
        ]_vars

\* C10 witness: a second toggle, taken during an active drag with an
\* affordance open while the first toggle's clear is pending, has restored
\* Placing mode.
C10_Witness ==
    /\ lastEvent.op = "toggle"
    /\ timers = 2
    /\ isPlacingMode
    /\ dragGesture # NULL
    /\ popupMarkerId # NULL
    /\ waypoints # <<>>

\* C11: handleDrag is idempotent: in every reachable state, for every id and
\* position, applying it twice gives the list that applying it once gives
\* (it changes no other state component); in particular, applying again the
\* drag event just handled leaves the list as it is.
C11_HandleDragIdempotent ==
    /\ \A id \in 1..(MaxWaypoints + 1), p \in LngLats :
          handleDrag(handleDrag(waypoints, id, p), id, p)
              = handleDrag(waypoints, id, p)
    /\ lastEvent.op \in {"drag", "handleDrag"} =>
          handleDrag(waypoints, lastEvent.id, lastEvent.lngLat) = waypoints

\* C11 witness: handleDrag has moved waypoint 2 of three to a place where
\* waypoint 1 is not.
C11_Witness ==
    /\ lastEvent.op = "handleDrag"
    /\ lastEvent.id = 2
    /\ Len(waypoints) = 3
    /\ waypoints[2].latitude = lastEvent.lngLat.lat
    /\ waypoints[1].latitude # lastEvent.lngLat.lat

\* C12: deleteMarker(id) with an id that no waypoint has leaves the waypoint
\* list, ids included, and the path unchanged, and shows no message.
C12_DeleteUnknownId ==
    [][lastEvent'.op = "delete" /\ ~HasId(waypoints, lastEvent'.id) =>
        /\ waypoints' = waypoints
        /\ geojson' = geojson
        /\ modeMessage' = modeMessage
    ]_vars

\* C12 witness: deleteMarker was called with an id that is never a
\* waypoint's, on a list of two waypoints at different places.
C12_Witness ==
    /\ lastEvent.op = "delete"
    /\ lastEvent.id = MaxWaypoints + 1
    /\ Len(waypoints) = 2
    /\ Positions(waypoints)[1] # Positions(waypoints)[2]

\* C13: with timer callbacks eventually run, a displayed mode message is
\* eventually cleared (whether or not a further toggle occurs, hence also
\* when none does), and a cleared message stays null until the next toggle.
C13_MessageEventuallyCleared ==
    /\ [](modeMessage # NullMessage => <>(modeMessage = NullMessage))
    /\ [][modeMessage = NullMessage /\ modeMessage' # NullMessage =>
            lastEvent'.op = "toggle"]_vars

\* C13 witness: the last pending timer has fired and cleared the message.
C13_Witness ==
    /\ lastEvent.op = "timer"
    /\ modeMessage = NullMessage
    /\ timers = 0
    /\ ~isPlacingMode

\* C14: after each drag-move event of a gesture on waypoint k, the stored
\* position of waypoint k is the coordinate carried by that event.
C14_LatestDragPosition ==
    lastEvent.op = "drag" =>
        \E i \in 1..Len(waypoints) :
            /\ waypoints[i].id = lastEvent.id
            /\ waypoints[i].latitude = lastEvent.lngLat.lat
            /\ waypoints[i].longitude = lastEvent.lngLat.lng

\* C14 witness: during a gesture on waypoint 2 a drag-move has put it at the
\* event's coordinate, away from waypoint 1.
C14_Witness ==
    /\ lastEvent.op = "drag"
    /\ lastEvent.id = 2
    /\ dragGesture = 2
    /\ draggingMarkerId = 2
    /\ Len(waypoints) = 3
    /\ Positions(waypoints)[2] = <<lastEvent.lngLat.lat, lastEvent.lngLat.lng>>
    /\ Positions(waypoints)[1] # Positions(waypoints)[2]

\* C15: a displayed message names the current mode: modeMessage is null, or
\* "Placing Mode" in Placing mode, or "Dragging Mode" in Dragging mode.
C15_MessageNamesMode ==
    \/ modeMessage = NullMessage
    \/ isPlacingMode /\ modeMessage = "Placing Mode"
    \/ ~isPlacingMode /\ modeMessage = "Dragging Mode"

\* C15 witness: after a second toggle, with the first toggle's clear still
\* pending, the message of the second toggle is displayed.
C15_Witness ==
    /\ lastEvent.op = "toggle"
    /\ timers = 2
    /\ isPlacingMode
    /\ modeMessage = "Placing Mode"

\* C16: a delete-affordance click leaves no affordance open; in every state
\* an open affordance designates, by its id, the very waypoint on which it
\* was opened by right-click; and a delete-affordance click removes exactly
\* that waypoint.
C16_AffordanceDesignatesTarget ==
    /\ [](popupMarkerId # NULL =>
            \A i \in 1..Len(waypoints) :
                waypoints[i].id = popupMarkerId => popupTarget[i])
    /\ [][lastEvent'.op = "delete" =>
            /\ popupMarkerId' = NULL
            /\ \E i \in 1..Len(waypoints) :
                  /\ popupTarget[i]
                  /\ waypoints[i].id = lastEvent'.id
            /\ Len(waypoints') = Len(waypoints) - 1
            /\ \A j \in 1..(Len(waypoints) - 1) :
                  ~FilterMarks(popupTarget, waypoints, lastEvent'.id)[j]
        ]_vars

\* C16, open case reached: the affordance was opened on waypoint 2, waypoint 2 was then
\* dragged, and the affordance still designates it.
C16_OpenWhileDragged ==
    /\ lastEvent.op = "drag"
    /\ lastEvent.id = 2
    /\ popupMarkerId = 2
    /\ popupTarget = <<FALSE, TRUE, FALSE>>
    /\ Len(waypoints) = 3

\* C16 witness: the affordance of waypoint 1 of three was
\* clicked; two waypoints remain and no affordance is open.
C16_Witness ==
    /\ lastEvent.op = "delete"
    /\ lastEvent.id = 1
    /\ popupMarkerId = NULL
    /\ popupTarget = <<FALSE, FALSE>>
    /\ dragGesture = NULL

\* C17: a right-click on marker k closes the affordance if it is open for k
\* and otherwise opens it for k; the waypoint list and the mode are unchanged.
C17_RightClickToggles ==
    [][lastEvent'.op = "contextMenu" =>
        /\ popupMarkerId = lastEvent'.id => popupMarkerId' = NULL
        /\ popupMarkerId # lastEvent'.id => popupMarkerId' = lastEvent'.id
        /\ waypoints' = waypoints
        /\ isPlacingMode' = isPlacingMode
    ]_vars

\* C17 witness: in Placing mode a right-click on marker 2 has closed the
\* affordance (which only a right-click on marker 2 had opened).
C17_Witness ==
    /\ lastEvent.op = "contextMenu"
    /\ lastEvent.id = 2
    /\ popupMarkerId = NULL
    /\ isPlacingMode
    /\ Len(waypoints) = 2

\* C18 (as claimed): popupMarkerId and draggingMarkerId are each null or the
\* id of a waypoint in the list.
C18_IdsValid ==
    /\ popupMarkerId = NULL \/ HasId(waypoints, popupMarkerId)
    /\ draggingMarkerId = NULL \/ HasId(waypoints, draggingMarkerId)

\* C18 (amended): while the list is not empty popupMarkerId is null or the id
\* of a waypoint in the list, and while a drag gesture is in progress
\* draggingMarkerId is the id of the dragged waypoint, which is in the list.
C18_IdsValidWhileShown ==
    /\ waypoints # <<>> =>
          (popupMarkerId = NULL \/ HasId(waypoints, popupMarkerId))
    /\ dragGesture # NULL =>
          (draggingMarkerId = dragGesture /\ HasId(waypoints, draggingMarkerId))

\* C18 witness: waypoint 3 was deleted, through its open affordance, during
\* a drag of waypoint 1, which is still being dragged.
C18_Witness ==
    /\ lastEvent.op = "delete"
    /\ lastEvent.id = 3
    /\ popupMarkerId = NULL
    /\ dragGesture = 1
    /\ draggingMarkerId = 1
    /\ Len(waypoints) = 2

====
